---- MODULE Spec2Model ----
(***************************************************************************)
(* Overlap of transposable elements (TEs) with a gene and its flanking     *)
(* windows: transposon/overlap.py.                                         *)
(*                                                                         *)
(*   Overlap           the three vectorised overlap functions              *)
(*   _OverlapDataSink  the HDF5 file with the datasets left, right, intra  *)
(*   OverlapData       filtering, index maps and the gene x window loop    *)
(*                                                                         *)
(* Numbers.  Gene and TE coordinates are numpy scalars / arrays.  The      *)
(* importers cast Start and Stop to uint32 (import_genes.py:40-41,         *)
(* density.py:167-168, 208-209); a caller may as well hand over int64.     *)
(* The model checker's integers are 32 bit signed, so a uint32 value       *)
(* v >= 2^31 is held as v - 2^32 (its two's complement reading): + and -   *)
(* are then exactly the uint32 operations, and only the order comparisons  *)
(* (np.maximum, np.minimum) differ from the signed ones.                   *)
(***************************************************************************)
EXTENDS Integers, Sequences, FiniteSets, TLC

VARIABLES
    dtype,          \* element type of the coordinates: "int64" or "uint32"
    \* --- one direct call of an Overlap function
    k_gene,         \* gene_datum
    k_tes,          \* transposons
    k_window,       \* window
    k_dir,          \* which function was applied: "none", "left", "intra", "right"
    k_out,          \* what it returned
    \* --- OverlapData.calculate: its arguments
    transposons,    \* the TE collection
    req_names,      \* gene_names, as requested
    req_windows,    \* windows, as requested
    progress,       \* TRUE when a progress callback is given
    \* --- OverlapData
    gene_names,         \* self._gene_names
    windows,            \* self._windows
    gene_name_2_idx,    \* self._gene_name_2_idx
    window_2_idx,       \* self._window_2_idx
    sink,               \* self._data: _n_genes, _n_tes, _n_win
    \* --- _OverlapDataSink and its file
    h5_file,        \* the file handle: "None", "open" or "closed"
    handles,        \* which of sink.left, sink.right, sink.intra are not None
    datasets,       \* the datasets that exist in the file
    ds_left,        \* the contents of the datasets
    ds_right,
    ds_intra,
    flushed,        \* the file was flushed since it was opened
    \* --- the position in calculate
    pc,
    gi,             \* position of the gene loop in gene_names
    wi,             \* position of the window loop in windows
    gene_datum,     \* the gene being processed
    g_idx,
    exc,            \* the error that ended the call, or "none"
    \* --- what an observer of the run records
    log,            \* the records passed to the logger
    get_gene_args,  \* the names get_gene was called with
    progress_calls, \* invocations of the progress callback in this call
    written,        \* the slices written in this call
    calls,          \* calculate calls so far
    prev            \* the request and the outcome of the previous completed call

kvars == <<k_gene, k_tes, k_window, k_dir, k_out>>

argvars == <<transposons, req_names, req_windows, progress>>

objvars == <<gene_names, windows, gene_name_2_idx, window_2_idx, sink>>

filevars == <<h5_file, handles, datasets, ds_left, ds_right, ds_intra, flushed>>

posvars == <<pc, gi, wi, gene_datum, g_idx, exc>>

obsvars == <<log, get_gene_args, progress_calls, written, calls, prev>>

cvars == <<argvars, objvars, filevars, posvars, obsvars>>

vars == <<dtype, kvars, cvars>>

(***************************************************************************)
(* Bounds of the model.                                                    *)
(***************************************************************************)
MaxCoord == 3       \* coordinates of the enumerated genes and TEs: 1..MaxCoord
MaxWindow == 3      \* enumerated window sizes: 0..MaxWindow
MaxTes == 2         \* TEs in an enumerated collection: 1..MaxTes
MaxNames == 2       \* gene names in a request: 0..MaxNames
MaxWindows == 2     \* windows in a request: 0..MaxWindows
MaxCalls == 2       \* calculate calls on one OverlapData

DTypes == {"int64", "uint32"}

(***************************************************************************)
(* numpy arithmetic on the residues described above.                       *)
(***************************************************************************)

\* a <= b as numpy orders two values of the element type
np_le(dt, a, b) ==
    IF dt = "uint32"
    THEN IF (a < 0) = (b < 0) THEN a <= b ELSE b < 0
    ELSE a <= b

np_maximum(dt, a, b) == IF np_le(dt, a, b) THEN b ELSE a

np_minimum(dt, a, b) == IF np_le(dt, a, b) THEN a ELSE b

\* The result of an array expression: a vector, or the ValueError that numpy
\* raises when two operands cannot be broadcast together.
Vec(v) == [ok |-> TRUE, vec |-> v]
ValueError == [ok |-> FALSE, vec |-> <<>>]

\* a - b + 1 on two arrays, with numpy's broadcasting of a length-1 operand
np_sub_plus_1(a, b) ==
    IF Len(a) = Len(b) THEN Vec([i \in 1..Len(a) |-> a[i] - b[i] + 1])
    ELSE IF Len(a) = 1 THEN Vec([i \in 1..Len(b) |-> a[1] - b[i] + 1])
    ELSE IF Len(b) = 1 THEN Vec([i \in 1..Len(a) |-> a[i] - b[1] + 1])
    ELSE ValueError

\* the array expression as it is, without np.maximum(0, .)
np_maximum_0_left_out(dt, r) == r

\* np.maximum(0, r) on the result of an array expression
np_maximum_0(dt, r) ==
    IF r.ok THEN Vec([i \in 1..Len(r.vec) |-> np_maximum(dt, 0, r.vec[i])])
    ELSE ValueError

(***************************************************************************)
(* GeneDatum: the window boundaries of one gene.                           *)
(***************************************************************************)

\* the effective window: truncated so that the left window stops at 0
win_length(gene, window) ==
    IF gene.start - window < 0 THEN gene.start ELSE window

left_win_start(gene, w_len) ==
    IF gene.start - w_len < 0 THEN 0 ELSE gene.start - w_len

left_win_stop(gene) == gene.start - 1

right_win_start(gene) == gene.stop + 1

right_win_stop(gene, w_len) == gene.stop + w_len

(***************************************************************************)
(* Overlap.                                                                *)
(***************************************************************************)

Overlap_left(dt, gene, tes, window) ==
    LET w_len == win_length(gene, window)
        w_0 == left_win_start(gene, w_len)
        w_1 == left_win_stop(gene)
        lower_bound == [i \in 1..Len(tes.starts) |->
                            np_maximum(dt, w_0, tes.starts[i])]
        upper_bound == [i \in 1..Len(tes.stops) |->
                            np_minimum(dt, w_1, tes.stops[i])]
    IN  np_maximum_0(dt, np_sub_plus_1(upper_bound, lower_bound))

Overlap_intra(dt, gene, tes) ==
    LET g_0 == gene.start
        g_1 == gene.stop
        lower_bound == [i \in 1..Len(tes.stops) |->
                            np_minimum(dt, g_0, tes.stops[i])]
        upper_bound == [i \in 1..Len(tes.starts) |->
                            np_maximum(dt, g_1, tes.starts[i])]
    IN  np_maximum_0(dt, np_sub_plus_1(lower_bound, upper_bound))

Overlap_right(dt, gene, tes, window) ==
    LET w_0 == right_win_start(gene)
        w_len == win_length(gene, window)
        w_1 == right_win_stop(gene, w_len)
        lower_bound == [i \in 1..Len(tes.starts) |->
                            np_maximum(dt, w_0, tes.starts[i])]
        upper_bound == [i \in 1..Len(tes.stops) |->
                            np_minimum(dt, w_1, tes.stops[i])]
    IN  np_maximum_0(dt, np_sub_plus_1(upper_bound, lower_bound))

(***************************************************************************)
(* Inputs of the direct calls.                                             *)
(***************************************************************************)

Interval(lo, hi) == [start |-> lo, stop |-> hi]

\* a TE collection: the parallel arrays starts and stops
Transposons(tes) ==
    [starts |-> [i \in 1..Len(tes) |-> tes[i].start],
     stops |-> [i \in 1..Len(tes) |-> tes[i].stop]]

\* genes and TEs with stop >= start on the coordinates 1..MaxCoord (the
\* annotation files count bases from 1)
WellFormedIntervals ==
    {x \in [start : 1..MaxCoord, stop : 1..MaxCoord] : x.start <= x.stop}

TECollections ==
    UNION {{Transposons(q) : q \in [1..n -> WellFormedIntervals]} : n \in 1..MaxTes}

\* the worked examples: gene 100..200 with TE 180..220 and window 50, and a
\* gene starting at 50 with a requested window of 100
ScenarioGenes == {Interval(100, 200), Interval(50, 60)}
ScenarioTes == {Transposons(<<Interval(180, 220)>>),
                Transposons(<<Interval(10, 45), Interval(180, 220)>>)}
ScenarioWindows == {50, 100}


(***************************************************************************)
(* The gene collection, the TE collections and the requests of calculate.  *)
(***************************************************************************)

\* genes.get_gene(name), for the names of genes.names
GeneTable ==
    [n \in {"g1", "g2"} |-> IF n = "g1" THEN Interval(2, 4) ELSE Interval(1, 1)]

\* genes.names
GeneNames == DOMAIN GeneTable

\* names a request may hold: the genes, and a name the collection lacks
RequestNames == GeneNames \cup {"zz"}

\* windows a request may hold
RequestWindows == {-1, 0, 2}

SeqsUpTo(S, n) == UNION {[1..m -> S] : m \in 0..n}

\* TE collections: a well formed one, one whose stops are longer than its
\* starts (1 against 2: numpy broadcasts), and one whose starts and stops
\* cannot be broadcast (2 against 3)
GoodTes == Transposons(<<Interval(1, 2), Interval(3, 6)>>)
LongStopsTes == [starts |-> <<1>>, stops |-> <<2, 6>>]
RaggedTes == [starts |-> <<1, 3>>, stops |-> <<2, 6, 7>>]
TEChoices == {GoodTes, LongStopsTes, RaggedTes}

\* transposons.number_elements
number_elements(tes) == Len(tes.starts)

Range(f) == {f[i] : i \in DOMAIN f}

(***************************************************************************)
(* OverlapData: filtering and index maps.                                  *)
(***************************************************************************)

\* a filter that yields every requested name
_filter_gene_names_keeps_all(gene_names_requested, gene_names_available) ==
    gene_names_requested

\* the names _filter_gene_names yields
_filter_gene_names(gene_names_requested, gene_names_available) ==
    SelectSeq(gene_names_requested, LAMBDA name : name \in gene_names_available)

\* the windows _filter_windows yields
_filter_windows(windows_requested) ==
    SelectSeq(windows_requested, LAMBDA window : ~(window < 0))

GeneError(name) == [level |-> "error", what |-> "invalid gene name", name |-> name, window |-> 0]
WindowError(window) == [level |-> "error", what |-> "invalid window", name |-> "", window |-> window]

\* the records _filter_gene_names logs, in order
_filter_gene_names_log(gene_names_requested, gene_names_available) ==
    LET bad == SelectSeq(gene_names_requested,
                         LAMBDA name : name \notin gene_names_available)
    IN  [i \in 1..Len(bad) |-> GeneError(bad[i])]

\* the records _filter_windows logs, in order
_filter_windows_log(windows_requested) ==
    LET bad == SelectSeq(windows_requested, LAMBDA window : window < 0)
    IN  [i \in 1..Len(bad) |-> WindowError(bad[i])]

Maximum(S) == CHOOSE x \in S : \A y \in S : y <= x

\* a map that gives every name the row 0
_map_gene_names_to_one_row(names) == [name \in Range(names) |-> 0]

\* {name: idx for idx, name in enumerate(gene_names)}: a later entry of the
\* same key replaces the earlier one
_map_gene_names_2_indices(names) ==
    [name \in Range(names) |-> Maximum({i - 1 : i \in {j \in 1..Len(names) : names[j] = name}})]

\* {win: idx for idx, win in enumerate(windows)}
_map_windows_2_indices(wins) ==
    [win \in Range(wins) |-> Maximum({i - 1 : i \in {j \in 1..Len(wins) : wins[j] = win}})]

(***************************************************************************)
(* _OverlapDataSink: float32 datasets.                                     *)
(*                                                                         *)
(* A float32 is held as <<hi, lo>>, the number hi * 2^32 + lo.             *)
(***************************************************************************)

TwoPow24 == 16777216

\* the unit in the last place of a float32 near v >= 0
RECURSIVE Ulp(_, _)
Ulp(v, u) == IF v \div u < TwoPow24 THEN u ELSE Ulp(v, 2 * u)

\* v rounded to the nearest multiple of u, ties to the even multiple
RoundTo(v, u) ==
    LET q == v \div u
        r == v % u
    IN  IF 2 * r > u \/ (2 * r = u /\ q % 2 = 1) THEN (q + 1) * u ELSE q * u

\* the float32 nearest to a value of element type dt: exact below 2^24; a
\* uint32 held as v < 0 is 2^32 + v in [2^31, 2^32), where floats are 256 apart
float32(dt, v) ==
    IF v >= 0 THEN <<0, RoundTo(v, Ulp(v, 1))>>
    ELSE IF dt = "uint32" THEN <<1, RoundTo(v, 256)>>
    ELSE <<0, 0 - RoundTo(0 - v, Ulp(0 - v, 1))>>

float32_vec(dt, vec) == [i \in 1..Len(vec) |-> float32(dt, vec[i])]

Zero == <<0, 0>>

\* a dataset as created: every element at the fill value 0.0
lr_zeros(n_genes, n_win, n_tes) ==
    [g \in 0..(n_genes - 1) |-> [w \in 0..(n_win - 1) |-> [t \in 1..n_tes |-> Zero]]]

i_zeros(n_genes, n_tes) ==
    [g \in 0..(n_genes - 1) |-> [t \in 1..n_tes |-> Zero]]

\* the two indices taken in the order of the parameters
left_right_slice_swapped(window, gene) == <<window, gene>>

\* (gene, window, slice(None))
left_right_slice(window, gene) == <<gene, window>>

\* (gene, slice(None))
intra_slice(gene) == <<gene>>

\* dataset[destination] = value raises unless the destination exists and the
\* value has the length of the TE axis
CanWriteLR(ds, destination, vec) ==
    /\ destination[1] \in DOMAIN ds
    /\ destination[2] \in DOMAIN ds[destination[1]]
    /\ Len(vec) = sink.n_tes

\* an intra dataset that takes a vector of any length
CanWriteI_any_length(ds, destination, vec) ==
    destination[1] \in DOMAIN ds

CanWriteI(ds, destination, vec) ==
    /\ destination[1] \in DOMAIN ds
    /\ Len(vec) = sink.n_tes

WriteLR(ds, destination, vec) ==
    [ds EXCEPT ![destination[1]][destination[2]] = float32_vec(dtype, vec)]

WriteI(ds, destination, vec) ==
    [ds EXCEPT ![destination[1]] = float32_vec(dtype, vec)]

(***************************************************************************)
(* OverlapData.calculate.                                                  *)
(***************************************************************************)

NoGene == Interval(0, 0)
NoTes == Transposons(<<>>)
NoOut == Vec(<<>>)
NoSink == [n_genes |-> 0, n_tes |-> 0, n_win |-> 0]
NoPrev ==
    [set |-> FALSE, names |-> <<>>, windows |-> <<>>,
     gene_name_2_idx |-> <<>>, window_2_idx |-> <<>>,
     left |-> <<>>, right |-> <<>>, intra |-> <<>>]

\* the outcome of the call that just completed
Outcome ==
    [set |-> TRUE, names |-> req_names, windows |-> req_windows,
     gene_name_2_idx |-> gene_name_2_idx, window_2_idx |-> window_2_idx,
     left |-> ds_left, right |-> ds_right, intra |-> ds_intra]

\* the sizes _reset hands to _OverlapDataSink
_reset_sizes(names_filtered, windows_filtered, tes) ==
    [n_genes |-> Len(names_filtered),
     n_tes |-> number_elements(tes),
     n_win |-> Len(windows_filtered)]

\* calculate(genes, transposons, windows, gene_names, progress) up to the
\* with statement: _reset filters, builds the index maps and constructs the
\* sink, whose file has a fresh name
Enter(names, wins, prog) ==
    LET names_filtered == _filter_gene_names(names, GeneNames)
        windows_filtered == _filter_windows(wins)
    IN  /\ req_names' = names
        /\ req_windows' = wins
        /\ progress' = prog
        /\ gene_names' = names_filtered
        /\ gene_name_2_idx' = _map_gene_names_2_indices(names_filtered)
        /\ windows' = windows_filtered
        /\ window_2_idx' = _map_windows_2_indices(windows_filtered)
        /\ sink' = _reset_sizes(names_filtered, windows_filtered, transposons)
        /\ log' = log \o _filter_gene_names_log(names, GeneNames)
                      \o _filter_windows_log(wins)
        /\ h5_file' = "None"
        /\ handles' = {}
        /\ datasets' = {}
        /\ ds_left' = <<>>
        /\ ds_right' = <<>>
        /\ ds_intra' = <<>>
        /\ flushed' = FALSE
        /\ pc' = "enter_file"
        /\ gi' = 1
        /\ wi' = 1
        /\ gene_datum' = NoGene
        /\ g_idx' = 0
        /\ exc' = "none"
        /\ get_gene_args' = {}
        /\ progress_calls' = 0
        /\ written' = {}
        /\ calls' = calls + 1
        /\ UNCHANGED <<dtype, kvars, transposons>>

\* the first call on a new OverlapData, with any request
Calculate ==
    /\ pc = "uninitialized"
    /\ \E names \in SeqsUpTo(RequestNames, MaxNames),
          wins \in SeqsUpTo(RequestWindows, MaxWindows),
          prog \in BOOLEAN :
            Enter(names, wins, prog)
    /\ prev' = prev

\* a call whose request cannot be filtered: iterating gene_names raises, or
\* an entry of windows cannot be compared with 0 after the windows wins were
\* read.  The error leaves _reset, and calculate, at once (overlap.py:195):
\* what _reset assigned before stays, self._data is not replaced.
CalculateUnfilterable ==
    /\ pc = "uninitialized"
    /\ \E names \in SeqsUpTo(RequestNames, MaxNames),
          wins \in SeqsUpTo(RequestWindows, MaxWindows) :
            /\ req_names' = names
            /\ req_windows' = wins
            /\ \/ UNCHANGED <<gene_names, gene_name_2_idx, log>>
               \/ /\ gene_names' = _filter_gene_names(names, GeneNames)
                  /\ gene_name_2_idx' =
                         _map_gene_names_2_indices(_filter_gene_names(names, GeneNames))
                  /\ log' = log \o _filter_gene_names_log(names, GeneNames)
                                \o _filter_windows_log(wins)
    /\ pc' = "failed"
    /\ exc' = "TypeError"
    /\ calls' = calls + 1
    /\ UNCHANGED <<dtype, kvars, transposons, progress, windows, window_2_idx, sink,
                   filevars, gi, wi, gene_datum, g_idx,
                   get_gene_args, progress_calls, written, prev>>

\* _reset did not complete: no sink was constructed
ResetFailed == pc = "failed" /\ sink = NoSink

\* what the documentation calls the valid entries of a request
ValidNames(names) == SelectSeq(names, LAMBDA name : name \in GeneNames)
ValidWindows(wins) == SelectSeq(wins, LAMBDA window : window > 0)

\* after a completed call, the caller repeats the request with its invalid
\* entries left out
CalculateAgain ==
    /\ pc = "done"
    /\ calls < MaxCalls
    /\ prev' = Outcome
    /\ Enter(ValidNames(req_names), ValidWindows(req_windows), progress)

\* after a completed call, the caller repeats the same request
CalculateSame ==
    /\ pc = "done"
    /\ calls < MaxCalls
    /\ prev' = Outcome
    /\ Enter(req_names, req_windows, progress)

Reverse(seq) == [i \in 1..Len(seq) |-> seq[Len(seq) + 1 - i]]

\* after a completed call, the caller repeats the request in the opposite order
CalculateReordered ==
    /\ pc = "done"
    /\ calls < MaxCalls
    /\ prev' = Outcome
    /\ Enter(Reverse(req_names), Reverse(req_windows), progress)

\* an error that leaves calculate at once, as without the with statement
Raise_without_exit(error) ==
    /\ exc' = error
    /\ pc' = "failed"

\* an error leaves the with block: __exit__ runs, then the error propagates
Raise(error) ==
    /\ exc' = error
    /\ pc' = "exit_flush"

\* _OverlapDataSink.__enter__: h5py.File(self.filepath, 'w').  An error of
\* __enter__ leaves calculate without __exit__ being run.
EnterFile ==
    /\ pc = "enter_file"
    /\ \/ /\ h5_file' = "open"
          /\ pc' = "enter_left"
          /\ exc' = exc
       \/ /\ h5_file' = h5_file
          /\ pc' = "failed"
          /\ exc' = "OSError"
    /\ UNCHANGED <<dtype, kvars, argvars, objvars, obsvars, gi, wi, gene_datum, g_idx,
                   handles, datasets, ds_left, ds_right, ds_intra, flushed>>

\* self.left = create_set('left', lr_shape, ...)
EnterLeft ==
    /\ pc = "enter_left"
    /\ \/ /\ datasets' = datasets \cup {"left"}
          /\ handles' = handles \cup {"left"}
          /\ ds_left' = lr_zeros(sink.n_genes, sink.n_win, sink.n_tes)
          /\ pc' = "enter_right"
          /\ exc' = exc
       \/ /\ UNCHANGED <<datasets, handles, ds_left>>
          /\ pc' = "failed"
          /\ exc' = "OSError"
    /\ UNCHANGED <<dtype, kvars, argvars, objvars, obsvars, gi, wi, gene_datum, g_idx,
                   h5_file, ds_right, ds_intra, flushed>>

\* self.right = create_set('right', lr_shape, ...)
EnterRight ==
    /\ pc = "enter_right"
    /\ \/ /\ datasets' = datasets \cup {"right"}
          /\ handles' = handles \cup {"right"}
          /\ ds_right' = lr_zeros(sink.n_genes, sink.n_win, sink.n_tes)
          /\ pc' = "enter_intra"
          /\ exc' = exc
       \/ /\ UNCHANGED <<datasets, handles, ds_right>>
          /\ pc' = "failed"
          /\ exc' = "OSError"
    /\ UNCHANGED <<dtype, kvars, argvars, objvars, obsvars, gi, wi, gene_datum, g_idx,
                   h5_file, ds_left, ds_intra, flushed>>

\* self.intra = create_set('intra', i_shape); return self
EnterIntra ==
    /\ pc = "enter_intra"
    /\ \/ /\ datasets' = datasets \cup {"intra"}
          /\ handles' = handles \cup {"intra"}
          /\ ds_intra' = i_zeros(sink.n_genes, sink.n_tes)
          /\ pc' = "gene"
          /\ exc' = exc
       \/ /\ UNCHANGED <<datasets, handles, ds_intra>>
          /\ pc' = "failed"
          /\ exc' = "OSError"
    /\ UNCHANGED <<dtype, kvars, argvars, objvars, obsvars, gi, wi, gene_datum, g_idx,
                   h5_file, ds_left, ds_right, flushed>>

\* the gene loop entering the window loop at once, the intra slice left out
NextGene_skipping_intra ==
    /\ pc = "gene"
    /\ IF gi <= Len(gene_names)
       THEN /\ get_gene_args' = get_gene_args \cup {gene_names[gi]}
            /\ gene_datum' = GeneTable[gene_names[gi]]
            /\ g_idx' = gene_name_2_idx[gene_names[gi]]
            /\ wi' = 1
            /\ pc' = "window"
       ELSE /\ pc' = "exit_flush"
            /\ UNCHANGED <<gene_datum, g_idx, get_gene_args, wi>>
    /\ UNCHANGED <<dtype, kvars, argvars, objvars, filevars, gi, exc,
                   log, progress_calls, written, calls, prev>>

\* for gene_name in self._gene_names: gene_datum = genes.get_gene(gene_name);
\* g_idx = self._gene_name_2_idx[gene_name]
NextGene ==
    /\ pc = "gene"
    /\ IF gi <= Len(gene_names)
       THEN \/ /\ get_gene_args' = get_gene_args \cup {gene_names[gi]}
               /\ IF gene_names[gi] \in GeneNames
                  THEN /\ gene_datum' = GeneTable[gene_names[gi]]
                       /\ g_idx' = gene_name_2_idx[gene_names[gi]]
                       /\ pc' = "intra"
                       /\ exc' = exc
                  ELSE /\ Raise("KeyError")
                       /\ UNCHANGED <<gene_datum, g_idx>>
            \/ /\ get_gene_args' = get_gene_args \cup {gene_names[gi]}
               /\ Raise("KeyError")
               /\ UNCHANGED <<gene_datum, g_idx>>
       ELSE /\ pc' = "exit_flush"
            /\ UNCHANGED <<gene_datum, g_idx, get_gene_args, exc>>
    /\ UNCHANGED <<dtype, kvars, argvars, objvars, filevars, gi, wi,
                   log, progress_calls, written, calls, prev>>

\* sink.intra[sink.intra_slice(g_idx)] = Overlap.intra(gene_datum, transposons)
Intra ==
    /\ pc = "intra"
    /\ LET value == Overlap_intra(dtype, gene_datum, transposons)
           destination == intra_slice(g_idx)
       IN  \/ IF ~value.ok
              THEN Raise("ValueError") /\ UNCHANGED <<ds_intra, written, wi>>
              ELSE IF ~CanWriteI(ds_intra, destination, value.vec)
              THEN Raise("TypeError") /\ UNCHANGED <<ds_intra, written, wi>>
              ELSE /\ ds_intra' = WriteI(ds_intra, destination, value.vec)
                   /\ written' = written \cup {<<"intra", destination[1], 0>>}
                   /\ wi' = 1
                   /\ pc' = "window"
                   /\ exc' = exc
           \/ /\ value.ok
              /\ Raise("OSError")
              /\ UNCHANGED <<ds_intra, written, wi>>
    /\ UNCHANGED <<dtype, kvars, argvars, objvars, gi, gene_datum, g_idx,
                   h5_file, handles, datasets, ds_left, ds_right, flushed,
                   log, get_gene_args, progress_calls, calls, prev>>

\* for window in self._windows: left, right = Overlap.left(...), Overlap.right(...);
\* w_idx = self._window_2_idx[window]; sink.left[destination] = left;
\* sink.right[destination] = right
Window ==
    /\ pc = "window"
    /\ IF wi <= Len(windows)
       THEN LET window == windows[wi]
                left == Overlap_left(dtype, gene_datum, transposons, window)
                right == Overlap_right(dtype, gene_datum, transposons, window)
                w_idx == window_2_idx[window]
                destination == left_right_slice(w_idx, g_idx)
                slot == <<destination[1], destination[2]>>
            IN  \/ IF ~left.ok \/ ~right.ok
                   THEN Raise("ValueError") /\ UNCHANGED <<ds_left, ds_right, written, wi>>
                   ELSE IF ~CanWriteLR(ds_left, destination, left.vec)
                   THEN Raise("TypeError") /\ UNCHANGED <<ds_left, ds_right, written, wi>>
                   ELSE IF ~CanWriteLR(ds_right, destination, right.vec)
                   THEN /\ ds_left' = WriteLR(ds_left, destination, left.vec)
                        /\ written' = written \cup {<<"left">> \o slot}
                        /\ Raise("TypeError")
                        /\ UNCHANGED <<ds_right, wi>>
                   ELSE /\ ds_left' = WriteLR(ds_left, destination, left.vec)
                        /\ ds_right' = WriteLR(ds_right, destination, right.vec)
                        /\ written' = written \cup {<<"left">> \o slot, <<"right">> \o slot}
                        /\ wi' = wi + 1
                        /\ UNCHANGED <<pc, exc>>
                \/ /\ left.ok /\ right.ok
                   /\ Raise("OSError")
                   /\ UNCHANGED <<ds_left, ds_right, written, wi>>
                \/ /\ left.ok /\ right.ok
                   /\ CanWriteLR(ds_left, destination, left.vec)
                   /\ ds_left' = WriteLR(ds_left, destination, left.vec)
                   /\ written' = written \cup {<<"left">> \o slot}
                   /\ Raise("OSError")
                   /\ UNCHANGED <<ds_right, wi>>
       ELSE /\ pc' = "progress"
            /\ UNCHANGED <<ds_left, ds_right, written, wi, exc>>
    /\ UNCHANGED <<dtype, kvars, argvars, objvars, gi, gene_datum, g_idx,
                   h5_file, handles, datasets, ds_intra, flushed,
                   log, get_gene_args, progress_calls, calls, prev>>

\* the callback invoked as soon as the intra slice is written, the windows
\* of the gene left out
Progress_before_windows ==
    /\ pc \in {"window", "progress"}
    /\ progress_calls' = progress_calls + 1
    /\ gi' = gi + 1
    /\ pc' = "gene"
    /\ exc' = exc
    /\ UNCHANGED <<dtype, kvars, argvars, objvars, filevars, wi, gene_datum, g_idx,
                   log, get_gene_args, written, calls, prev>>

\* if progress is not None: progress()
Progress ==
    /\ pc = "progress"
    /\ IF progress
       THEN \/ /\ progress_calls' = progress_calls + 1
               /\ gi' = gi + 1
               /\ pc' = "gene"
               /\ exc' = exc
            \/ /\ progress_calls' = progress_calls + 1
               /\ Raise("CallbackError")
               /\ gi' = gi
       ELSE /\ gi' = gi + 1
            /\ pc' = "gene"
            /\ UNCHANGED <<progress_calls, exc>>
    /\ UNCHANGED <<dtype, kvars, argvars, objvars, filevars, wi, gene_datum, g_idx,
                   log, get_gene_args, written, calls, prev>>

\* _OverlapDataSink.__exit__: self.h5_file.flush()
ExitFlush ==
    /\ pc = "exit_flush"
    /\ flushed' = TRUE
    /\ pc' = "exit_close"
    /\ UNCHANGED <<dtype, kvars, argvars, objvars, obsvars, gi, wi, gene_datum, g_idx, exc,
                   h5_file, handles, datasets, ds_left, ds_right, ds_intra>>

\* self.h5_file.close(); self.left = self.right = self.intra = None; the
\* pending error, if any, propagates to the caller of calculate
ExitClose ==
    /\ pc = "exit_close"
    /\ h5_file' = "closed"
    /\ handles' = {}
    /\ pc' = IF exc = "none" THEN "done" ELSE "failed"
    /\ UNCHANGED <<dtype, kvars, argvars, objvars, obsvars, gi, wi, gene_datum, g_idx, exc,
                   datasets, ds_left, ds_right, ds_intra, flushed>>

(***************************************************************************)
(* Specifications.                                                         *)
(***************************************************************************)

KernelIdle ==
    /\ k_gene = NoGene
    /\ k_tes = NoTes
    /\ k_window = 0
    /\ k_dir = "none"
    /\ k_out = NoOut

CalcIdle ==
    /\ req_names = <<>>
    /\ req_windows = <<>>
    /\ progress = FALSE
    /\ gene_names = <<>>
    /\ windows = <<>>
    /\ gene_name_2_idx = <<>>
    /\ window_2_idx = <<>>
    /\ sink = NoSink
    /\ h5_file = "None"
    /\ handles = {}
    /\ datasets = {}
    /\ ds_left = <<>>
    /\ ds_right = <<>>
    /\ ds_intra = <<>>
    /\ flushed = FALSE
    /\ pc = "uninitialized"
    /\ gi = 1
    /\ wi = 1
    /\ gene_datum = NoGene
    /\ g_idx = 0
    /\ exc = "none"
    /\ log = <<>>
    /\ get_gene_args = {}
    /\ progress_calls = 0
    /\ written = {}
    /\ calls = 0
    /\ prev = NoPrev

\* a new OverlapData, and the collections a caller holds
Init ==
    /\ dtype \in DTypes
    /\ KernelIdle
    /\ \E tes \in TEChoices :
          transposons = tes /\ CalcIdle

Next ==
    \/ Calculate
    \/ CalculateUnfilterable
    \/ CalculateAgain
    \/ CalculateSame
    \/ CalculateReordered
    \/ EnterFile
    \/ EnterLeft
    \/ EnterRight
    \/ EnterIntra
    \/ NextGene
    \/ Intra
    \/ Window
    \/ Progress
    \/ ExitFlush
    \/ ExitClose

Spec == Init /\ [][Next]_vars

\* one direct call of an Overlap function on enumerated arguments
KernelInit ==
    /\ dtype \in DTypes
    /\ \/ /\ k_gene \in WellFormedIntervals
          /\ k_tes \in TECollections
          /\ k_window \in 0..MaxWindow
       \/ /\ k_gene \in ScenarioGenes
          /\ k_tes \in ScenarioTes
          /\ k_window \in ScenarioWindows
    /\ k_dir = "none"
    /\ k_out = NoOut
    /\ transposons = NoTes
    /\ CalcIdle

CallLeft ==
    /\ k_dir = "none"
    /\ k_dir' = "left"
    /\ k_out' = Overlap_left(dtype, k_gene, k_tes, k_window)
    /\ UNCHANGED <<dtype, k_gene, k_tes, k_window, cvars>>

CallIntra ==
    /\ k_dir = "none"
    /\ k_dir' = "intra"
    /\ k_out' = Overlap_intra(dtype, k_gene, k_tes)
    /\ UNCHANGED <<dtype, k_gene, k_tes, k_window, cvars>>

CallRight ==
    /\ k_dir = "none"
    /\ k_dir' = "right"
    /\ k_out' = Overlap_right(dtype, k_gene, k_tes, k_window)
    /\ UNCHANGED <<dtype, k_gene, k_tes, k_window, cvars>>

KernelNext == CallLeft \/ CallIntra \/ CallRight

SpecKernel == KernelInit /\ [][KernelNext]_vars

\* TE collections whose arrays starts and stops differ in length, a length
\* of 1 included
MismatchedTes ==
    {c \in [starts : SeqsUpTo(1..MaxCoord, MaxTes),
            stops : SeqsUpTo(1..MaxCoord, MaxTes + 1)] :
        /\ Len(c.starts) >= 1
        /\ Len(c.stops) >= 1
        /\ Len(c.starts) # Len(c.stops)}

\* one direct call of an Overlap function on such a collection
ShapesInit ==
    /\ dtype \in DTypes
    /\ k_gene \in WellFormedIntervals
    /\ k_tes \in MismatchedTes
    /\ k_window \in 0..MaxWindow
    /\ k_dir = "none"
    /\ k_out = NoOut
    /\ transposons = NoTes
    /\ CalcIdle

SpecShapes == ShapesInit /\ [][KernelNext]_vars

(***************************************************************************)
(* The documented overlap of a TE with the region lo..hi, on unbounded     *)
(* integers: max(0, min(hi, stop) - max(lo, start) + 1).                   *)
(***************************************************************************)

Min(a, b) == IF a <= b THEN a ELSE b
Max(a, b) == IF a <= b THEN b ELSE a

DocumentedOverlap(lo, hi, tes) ==
    Vec([i \in 1..Len(tes.starts) |->
            Max(0, Min(hi, tes.stops[i]) - Max(lo, tes.starts[i]) + 1)])

\* the worked example: gene 100..200, TE 180..220, window 50
IsExample ==
    /\ k_gene = Interval(100, 200)
    /\ k_tes = Transposons(<<Interval(180, 220)>>)
    /\ k_window = 50

(***************************************************************************)
(* C1.  Overlap.intra returns, for every TE i,                             *)
(* max(0, min(gene.stop, stops[i]) - max(gene.start, starts[i]) + 1);      *)
(* the worked example gives 21.                                            *)
(***************************************************************************)
C1_IntraIsDocumentedOverlap ==
    k_dir = "intra" =>
        /\ k_out = DocumentedOverlap(k_gene.start, k_gene.stop, k_tes)
        /\ IsExample => k_out = Vec(<<21>>)

(***************************************************************************)
(* C2.  Overlap.right returns, for every TE i, the documented overlap with *)
(* the region gene.stop + 1 .. gene.stop + window, window being the        *)
(* requested window also for a gene whose start is smaller than it; the    *)
(* worked example gives 20.                                                *)
(***************************************************************************)
C2_RightIsDocumentedOverlap ==
    k_dir = "right" =>
        /\ k_out = DocumentedOverlap(k_gene.stop + 1, k_gene.stop + k_window, k_tes)
        /\ IsExample => k_out = Vec(<<20>>)

(***************************************************************************)
(* C3.  Overlap.left returns, for every TE i, the documented overlap with  *)
(* the region max(0, gene.start - effective window) .. gene.start - 1,     *)
(* the effective window being the requested one truncated to gene.start    *)
(* when gene.start - window is negative.                                   *)
(***************************************************************************)
EffectiveWindow(gene, window) ==
    IF gene.start - window < 0 THEN gene.start ELSE window

C3_LeftIsDocumentedOverlap ==
    k_dir = "left" =>
        k_out = DocumentedOverlap(
                    Max(0, k_gene.start - EffectiveWindow(k_gene, k_window)),
                    k_gene.start - 1, k_tes)

(***************************************************************************)
(* C4.  Every requested window <= 0, zero included, is dropped from the    *)
(* filtered windows and logged as an error: every window of the window     *)
(* index map is strictly positive.                                         *)
(***************************************************************************)
C4_NonPositiveWindowsDropped ==
    (calls >= 1 /\ ~ResetFailed) =>
        /\ \A w \in DOMAIN window_2_idx : w > 0
        /\ \A i \in DOMAIN req_windows :
              req_windows[i] <= 0 =>
                  /\ req_windows[i] \notin Range(windows)
                  /\ WindowError(req_windows[i]) \in Range(log)

(***************************************************************************)
(* C5.  A requested gene name that the gene collection lacks is dropped    *)
(* and logged as an error; the call does not fail for it, get_gene is      *)
(* never called with it, the run completes over the remaining names and    *)
(* the store is sized to them.                                             *)
(***************************************************************************)
UnknownNames == {n \in Range(req_names) : n \notin GeneNames}

C5_UnknownNamesDropped ==
    (calls >= 1 /\ ~ResetFailed) =>
        /\ gene_names = ValidNames(req_names)
        /\ \A n \in UnknownNames :
              /\ n \notin Range(gene_names)
              /\ n \notin get_gene_args
              /\ GeneError(n) \in Range(log)
        /\ sink.n_genes = Len(ValidNames(req_names))
        /\ pc = "enter_file" => exc = "none"
        /\ pc = "done" => get_gene_args = Range(ValidNames(req_names))
        /\ "intra" \in datasets => Cardinality(DOMAIN ds_intra) = Len(ValidNames(req_names))

C5_Witness ==
    /\ pc = "done"
    /\ UnknownNames # {}
    /\ get_gene_args # {}
    /\ written # {}

(***************************************************************************)
(* C6.  The datasets have shape (n_genes, n_windows, n_tes) for left and   *)
(* right and (n_genes, n_tes) for intra, n_genes and n_windows being the   *)
(* numbers of distinct filtered gene names and windows: the sizes of the   *)
(* index maps, also when the request repeats a name or a window.           *)
(***************************************************************************)
ShapeLR(ds) ==
    /\ Cardinality(DOMAIN ds) = Cardinality(DOMAIN gene_name_2_idx)
    /\ \A g \in DOMAIN ds :
          /\ Cardinality(DOMAIN ds[g]) = Cardinality(DOMAIN window_2_idx)
          /\ \A w \in DOMAIN ds[g] : Len(ds[g][w]) = number_elements(transposons)

ShapeI(ds) ==
    /\ Cardinality(DOMAIN ds) = Cardinality(DOMAIN gene_name_2_idx)
    /\ \A g \in DOMAIN ds : Len(ds[g]) = number_elements(transposons)

C6_ShapesCountDistinctEntries ==
    /\ "left" \in datasets => ShapeLR(ds_left)
    /\ "right" \in datasets => ShapeLR(ds_right)
    /\ "intra" \in datasets => ShapeI(ds_intra)

(***************************************************************************)
(* C7.  After a call that completed without error, for every filtered gene *)
(* name g and filtered window w the slice [gene_idx(g), window_idx(w)] of  *)
(* left and of right holds Overlap.left and Overlap.right of g and w, and  *)
(* the row gene_idx(g) of intra holds Overlap.intra of g, each as the      *)
(* float32 dataset stores it.                                              *)
(***************************************************************************)
Stored(value) == float32_vec(dtype, value.vec)

C7_SlicesHoldTheirOwnOverlap ==
    pc = "done" =>
        \A g \in Range(gene_names) :
            /\ ds_intra[gene_name_2_idx[g]] =
                   Stored(Overlap_intra(dtype, GeneTable[g], transposons))
            /\ \A w \in Range(windows) :
                  /\ ds_left[gene_name_2_idx[g]][window_2_idx[w]] =
                         Stored(Overlap_left(dtype, GeneTable[g], transposons, w))
                  /\ ds_right[gene_name_2_idx[g]][window_2_idx[w]] =
                         Stored(Overlap_right(dtype, GeneTable[g], transposons, w))

\* two genes and two windows, whose slices differ
C7_Witness ==
    /\ pc = "done"
    /\ Cardinality(Range(gene_names)) = 2
    /\ Cardinality(Range(windows)) = 2
    /\ ds_left[0][0] # ds_left[0][1]
    /\ ds_left[0][0] # ds_left[1][0]
    /\ ds_intra[0] # ds_intra[1]

(***************************************************************************)
(* C8.  A call whose request holds invalid entries (unknown names,         *)
(* non-positive windows) among the valid ones yields the index maps and    *)
(* the tensors of a call given only the valid entries in the same order.   *)
(***************************************************************************)
C8_FilteringIdempotent ==
    (/\ pc = "done"
     /\ prev.set
     /\ req_names = ValidNames(prev.names)
     /\ req_windows = ValidWindows(prev.windows)) =>
        /\ gene_name_2_idx = prev.gene_name_2_idx
        /\ window_2_idx = prev.window_2_idx
        /\ ds_left = prev.left
        /\ ds_right = prev.right
        /\ ds_intra = prev.intra

(***************************************************************************)
(* C9.  Once calculate has opened the store, the file is flushed and then  *)
(* closed on every way out of calculate, the normal one and an error of    *)
(* get_gene, an Overlap function, a slice write or the progress callback;  *)
(* the error still reaches the caller.                                     *)
(***************************************************************************)
Entered == datasets = {"left", "right", "intra"}

OpenFailed == pc = "failed" /\ ~flushed

C10_OpenAllOrNothing ==
    OpenFailed =>
        /\ datasets = {} \/ datasets = {"left", "right", "intra"}
        /\ h5_file # "open"
        /\ get_gene_args = {}
        /\ written = {}

(***************************************************************************)
(* C11.  On a TE collection whose starts and stops differ in length, a     *)
(* length of 1 included, Overlap.left, Overlap.intra and Overlap.right     *)
(* fail with a shape error and never return a vector.                      *)
(***************************************************************************)
C11_MismatchedArraysRejected ==
    (k_dir # "none" /\ Len(k_tes.starts) # Len(k_tes.stops)) => ~k_out.ok

(***************************************************************************)
(* C12.  With a progress callback, the callback is invoked once per        *)
(* filtered gene, each time only after the intra slice and the left and    *)
(* right slices of every filtered window of that gene were written; a run  *)
(* that completes has invoked it as often as it processed genes.           *)
(***************************************************************************)
AllSlicesWritten(name) ==
    /\ <<"intra", gene_name_2_idx[name], 0>> \in written
    /\ \A w \in Range(windows) :
          /\ <<"left", gene_name_2_idx[name], window_2_idx[w]>> \in written
          /\ <<"right", gene_name_2_idx[name], window_2_idx[w]>> \in written

C12_ProgressOncePerGene ==
    (calls >= 1 /\ progress) =>
        /\ progress_calls <= Len(gene_names)
        /\ \A j \in 1..progress_calls : AllSlicesWritten(gene_names[j])
        /\ pc \in {"gene", "intra", "window", "progress"} => progress_calls = gi - 1
        /\ pc = "done" => progress_calls = Len(gene_names)

\* a completed run over two genes and two windows
C12_Witness ==
    /\ pc = "done"
    /\ progress
    /\ progress_calls = 2
    /\ Cardinality(Range(gene_names)) = 2
    /\ Cardinality(Range(windows)) = 2

(***************************************************************************)
(* C13.  Determinism.  Two completed calls with the same genes, TEs,       *)
(* windows and gene names yield the same index maps and the same left,     *)
(* right and intra datasets; and the slices of a gene and a window are the *)
(* same in two calls that both hold them, whatever other names and windows *)
(* the requests hold and in whatever order.                                *)
(***************************************************************************)
SameRequest == prev.names = req_names /\ prev.windows = req_windows

C13_Deterministic ==
    (pc = "done" /\ prev.set) =>
        /\ SameRequest =>
              /\ gene_name_2_idx = prev.gene_name_2_idx
              /\ window_2_idx = prev.window_2_idx
              /\ ds_left = prev.left
              /\ ds_right = prev.right
              /\ ds_intra = prev.intra
        /\ \A g \in DOMAIN gene_name_2_idx \cap DOMAIN prev.gene_name_2_idx :
              /\ ds_intra[gene_name_2_idx[g]] = prev.intra[prev.gene_name_2_idx[g]]
              /\ \A w \in DOMAIN window_2_idx \cap DOMAIN prev.window_2_idx :
                    /\ ds_left[gene_name_2_idx[g]][window_2_idx[w]] =
                           prev.left[prev.gene_name_2_idx[g]][prev.window_2_idx[w]]
                    /\ ds_right[gene_name_2_idx[g]][window_2_idx[w]] =
                           prev.right[prev.gene_name_2_idx[g]][prev.window_2_idx[w]]

\* the second of two calls whose requests hold the same two genes and two
\* windows in opposite orders
C13_Witness ==
    /\ pc = "done"
    /\ prev.set
    /\ ~SameRequest
    /\ req_names = Reverse(prev.names)
    /\ Cardinality(DOMAIN gene_name_2_idx) = 2
    /\ Cardinality(DOMAIN window_2_idx) = 2
    /\ ds_intra[0] # ds_intra[1]

(***************************************************************************)
(* C14.  Non-negativity: every value that Overlap.left, Overlap.intra and  *)
(* Overlap.right return is >= 0, and so is every value held by the         *)
(* datasets left, right and intra.                                         *)
(***************************************************************************)
\* the number a value of element type dt stands for is >= 0: a uint32 is
\* so whatever its residue
NonNegative(dt, v) == dt = "uint32" \/ v >= 0

\* the float32 <<hi, lo>> is >= 0
StoredNonNegative(f) == f[1] > 0 \/ (f[1] = 0 /\ f[2] >= 0)

C14_NonNegative ==
    /\ (k_dir # "none" /\ k_out.ok) =>
          \A i \in DOMAIN k_out.vec :
              /\ NonNegative(dtype, k_out.vec[i])
              /\ StoredNonNegative(float32(dtype, k_out.vec[i]))
    /\ \A g \in DOMAIN ds_intra : \A t \in DOMAIN ds_intra[g] :
          StoredNonNegative(ds_intra[g][t])
    /\ \A g \in DOMAIN ds_left : \A w \in DOMAIN ds_left[g] : \A t \in DOMAIN ds_left[g][w] :
          StoredNonNegative(ds_left[g][w][t])
    /\ \A g \in DOMAIN ds_right : \A w \in DOMAIN ds_right[g] : \A t \in DOMAIN ds_right[g][w] :
          StoredNonNegative(ds_right[g][w][t])

\* signed coordinates and a TE two bases right of the left window: the
\* difference of the bounds is negative and 0 is returned
C14_Witness ==
    /\ k_dir = "left"
    /\ dtype = "int64"
    /\ k_gene = Interval(1, 1)
    /\ k_window = 1
    /\ k_tes = Transposons(<<Interval(3, 3)>>)
    /\ k_out = Vec(<<0>>)

(***************************************************************************)
(* C15.  Upper bound of the flanks.  With the coordinates held as uint32,  *)
(* for every gene, window and TE i the left and the right overlap are at   *)
(* most min(effective window, stops[i] - starts[i] + 1), and a TE that     *)
(* lies entirely outside a flanking window has the overlap 0 with it.      *)
(***************************************************************************)
\* the uint32 of residue v is at most the small number n >= 0
AtMost(v, n) == v >= 0 /\ v <= n

\* the TE i shares no base with the region lo..hi
Outside(tes, i, lo, hi) == tes.stops[i] < lo \/ tes.starts[i] > hi

C15_FlankUpperBound ==
    (dtype = "uint32" /\ k_dir \in {"left", "right"} /\ k_out.ok) =>
        \A i \in DOMAIN k_out.vec :
            /\ AtMost(k_out.vec[i],
                      Min(EffectiveWindow(k_gene, k_window),
                          k_tes.stops[i] - k_tes.starts[i] + 1))
            /\ (k_dir = "left"
                /\ Outside(k_tes, i,
                           Max(0, k_gene.start - EffectiveWindow(k_gene, k_window)),
                           k_gene.start - 1)) => k_out.vec[i] = 0
            /\ (k_dir = "right"
                /\ Outside(k_tes, i, k_gene.stop + 1, k_gene.stop + k_window))
                   => k_out.vec[i] = 0

(***************************************************************************)
(* C16.  A calculate call passes through its phases in order, none         *)
(* skipped: uninitialized, filtering and indexing, store open, gene loop,  *)
(* store closed.  The filtered lists and the index maps are complete       *)
(* before the store file is opened and stay as they are; no slice is       *)
(* written before the store is open or after it is closed; an error of     *)
(* filtering leaves no store file opened; within a gene the intra slice is *)
(* written before any left or right slice of that gene.                    *)
(***************************************************************************)
\* filtering and indexing (phase 1) is the step from phase 0 or 5 to phase 2
Phase(p) ==
    CASE p = "uninitialized" -> 0
      [] p \in {"enter_file", "enter_left", "enter_right", "enter_intra"} -> 2
      [] p \in {"gene", "intra", "window", "progress"} -> 3
      [] p \in {"exit_flush", "exit_close"} -> 4
      [] p \in {"done", "failed"} -> 5

FilteredAndIndexed ==
    /\ gene_names = _filter_gene_names(req_names, GeneNames)
    /\ windows = _filter_windows(req_windows)
    /\ gene_name_2_idx = _map_gene_names_2_indices(gene_names)
    /\ window_2_idx = _map_windows_2_indices(windows)
    /\ sink = _reset_sizes(gene_names, windows, transposons)

C16_PhaseState ==
    /\ (Phase(pc) \in 2..4 \/ h5_file = "open") => FilteredAndIndexed
    /\ Phase(pc) = 2 => written = {}
    /\ Phase(pc) = 3 => (h5_file = "open" /\ Entered)
    /\ written # {} => Entered
    /\ pc = "done" => (h5_file = "closed" /\ gi = Len(gene_names) + 1)
    /\ ResetFailed => (h5_file = "None" /\ datasets = {} /\ written = {})
    /\ \A x \in written :
          x[1] \in {"left", "right"} => <<"intra", x[2], 0>> \in written

C16_PhaseStep ==
    /\ \/ Phase(pc') = Phase(pc)
       \/ Phase(pc') = Phase(pc) + 1
       \/ Phase(pc) \in {0, 5} /\ Phase(pc') = 2
       \/ Phase(pc) \in {0, 2} /\ pc' = "failed"
    /\ Phase(pc) \in 2..4 => UNCHANGED objvars
    /\ ~(written' \subseteq written) => (h5_file = "open" /\ h5_file' = "open")
    /\ h5_file' = "open" => (h5_file = "open" \/ pc = "enter_file")

C16_PhasesInOrder == []C16_PhaseState /\ [][C16_PhaseStep]_vars

\* a second call that completed after writing the slices of two genes
C16_Witness ==
    /\ pc = "done"
    /\ calls = 2
    /\ h5_file = "closed"
    /\ <<"intra", 1, 0>> \in written
    /\ <<"right", 1, 0>> \in written

(***************************************************************************)
(* C17.  The index maps are built in first-seen order: the index of a      *)
(* filtered gene name, or window, is the position of its first occurrence  *)
(* among the distinct entries of the filtered list, the indices of a map   *)
(* are 0..n-1 for its n keys, and a slice is written at the index the map  *)
(* reports, also when the request repeats a name or a window.              *)
(***************************************************************************)
FirstOccurrence(list, x) ==
    CHOOSE i \in DOMAIN list : list[i] = x /\ \A j \in 1..(i - 1) : list[j] # x

\* how many distinct entries are first seen before x
FirstSeenIndex(list, x) ==
    Cardinality({y \in Range(list) : FirstOccurrence(list, y) < FirstOccurrence(list, x)})

FirstSeenMap(list, map) ==
    /\ DOMAIN map = Range(list)
    /\ \A x \in DOMAIN map : map[x] = FirstSeenIndex(list, x)
    /\ Range(map) = 0..(Cardinality(DOMAIN map) - 1)

C17_FirstSeenIndices ==
    (calls >= 1 /\ ~ResetFailed) =>
        /\ FirstSeenMap(gene_names, gene_name_2_idx)
        /\ FirstSeenMap(windows, window_2_idx)
        /\ \A x \in written :
              /\ x[2] \in Range(gene_name_2_idx)
              /\ x[1] \in {"left", "right"} => x[3] \in Range(window_2_idx)

(***************************************************************************)
(* C18.  When a structural error arises while a gene is processed (arrays  *)
(* that cannot be combined, or an overlap vector whose length is not the   *)
(* TE dimension of the store), calculate aborts and no slice of that gene, *)
(* intra, left or right, has been written when the error propagates.       *)
(***************************************************************************)
StructuralError ==
    /\ exc \in {"ValueError", "TypeError"}
    /\ ~ResetFailed

C18_NoPartialGeneOnStructuralError ==
    StructuralError =>
        /\ pc \in {"exit_flush", "exit_close", "failed"}
        /\ \A x \in written : x[2] # g_idx
        /\ ds_intra[g_idx] = i_zeros(sink.n_genes, sink.n_tes)[g_idx]
        /\ ds_left[g_idx] = lr_zeros(sink.n_genes, sink.n_win, sink.n_tes)[g_idx]
        /\ ds_right[g_idx] = lr_zeros(sink.n_genes, sink.n_win, sink.n_tes)[g_idx]

\* the vector has two elements where the store has one TE column; the call
\* ended with the error, the store closed
C18_Witness ==
    /\ pc = "failed"
    /\ exc = "TypeError"
    /\ transposons = LongStopsTes
    /\ gene_datum = GeneTable["g1"]
    /\ Len(windows) = 2
    /\ h5_file = "closed"

(***************************************************************************)
(* C19.  After a call that completed without error every allocated cell    *)
(* was written: every row of intra and every (gene index, window index)    *)
(* pair of left and of right was the destination of a write, also for a    *)
(* request that repeats a gene name or a window.                           *)
(***************************************************************************)
C19_EveryAllocatedSliceWritten ==
    pc = "done" =>
        /\ \A g \in DOMAIN ds_intra : <<"intra", g, 0>> \in written
        /\ \A g \in DOMAIN ds_left : \A w \in DOMAIN ds_left[g] :
              <<"left", g, w>> \in written
        /\ \A g \in DOMAIN ds_right : \A w \in DOMAIN ds_right[g] :
              <<"right", g, w>> \in written

====
